---- MODULE Spec2Model ----
(***************************************************************************)
(* TimeSeriesAnalyzer of trends_analyzer/analyzer_modules.py.              *)
(*                                                                         *)
(* A pandas Series is a record [index, values]: two sequences of the same  *)
(* length, the labels and the entries.  An entry is a rational num/den or  *)
(* NaN (nan = TRUE); floating point rounding is not modelled.  The state   *)
(* is the analyzer after __init__ plus the last call made on it and what   *)
(* that call returned or raised.                                           *)
(***************************************************************************)
EXTENDS Integers, Sequences, FiniteSets

VARIABLES data, moving_avg_data, call, result

vars == <<data, moving_avg_data, call, result>>

(* ------------------------------- bounds -------------------------------- *)
MaxLen == 9        \* longest raw series
MaxWindow == 8     \* largest window_size argument tried
MaxLags == 3       \* largest lags argument tried
RawValues == {0, 1} \* observations a raw series is made of

(* -------------------------- program constants -------------------------- *)
DefaultWindowSize == 7     \* def calculate_moving_average(self, window_size: int = 7)
WrapperDefaultWindow == 7  \* kwargs.get("window_size", 7)
WrapperDefaultLags == 40   \* kwargs.get("lags", 40)

(* ------------------------------- values -------------------------------- *)
NaN == [nan |-> TRUE, num |-> 0, den |-> 1]
Num(n) == [nan |-> FALSE, num |-> n, den |-> 1]
Rat(n, d) == [nan |-> FALSE, num |-> n, den |-> d]

\* a - b on floats: NaN when either operand is NaN
Sub(a, b) ==
    IF a.nan \/ b.nan THEN NaN
    ELSE Rat(a.num * b.den - b.num * a.den, a.den * b.den)

\* a < b on floats: False when either operand is NaN
Lt(a, b) == ~a.nan /\ ~b.nan /\ a.num * b.den < b.num * a.den

\* p / q on numpy floats, used where q = 0 implies p = 0: 0/0 is nan
Div(p, q) == IF q = 0 THEN NaN ELSE Rat(p, q)

\* the same number (NaN is the same entry as NaN: "missing")
SameEntry(a, b) ==
    IF a.nan \/ b.nan THEN a.nan /\ b.nan
    ELSE a.num * b.den = b.num * a.den

Min(a, b) == IF a < b THEN a ELSE b
Max(a, b) == IF a > b THEN a ELSE b

RECURSIVE SumTo(_, _, _)
\* f[lo] + ... + f[hi]
SumTo(f, lo, hi) == IF lo > hi THEN 0 ELSE f[hi] + SumTo(f, lo, hi - 1)

\* the elements of a finite set of integers in increasing order
Sorted(S) ==
    [k \in 1..Cardinality(S) |-> CHOOSE p \in S : Cardinality({q \in S : q <= p}) = k]

(* ------------------------------- Series -------------------------------- *)
EmptySeries == [index |-> <<>>, values |-> <<>>]
Size(s) == Len(s.values)

\* s.iloc[positions]
Take(s, positions) ==
    [index  |-> [k \in 1..Len(positions) |-> s.index[positions[k]]],
     values |-> [k \in 1..Len(positions) |-> s.values[positions[k]]]]

\* s[mask], the mask given as the set of positions where it is True
Mask(s, mask) == Take(s, Sorted(mask))

isnull_all(s) == \A i \in 1..Size(s) : s.values[i].nan
dropna(s) == Mask(s, {i \in 1..Size(s) : ~s.values[i].nan})

\* s.shift(periods) for periods 1 and -1
shift(s, periods) ==
    [index  |-> s.index,
     values |-> [i \in 1..Size(s) |->
                   IF i - periods \in 1..Size(s) THEN s.values[i - periods] ELSE NaN]]

\* arguments: an int, a float val + 1/2, or None
IntArg(v) == [kind |-> "int", val |-> v]
FloatArg(v) == [kind |-> "float", val |-> v]
NoneArg == [kind |-> "none", val |-> 0]

IsPositiveInt(a) == a.kind = "int" /\ a.val > 0

(* ------------------------------ outcomes ------------------------------- *)
Returned(s) == [kind |-> "series", index |-> s.index, values |-> s.values]
Raised(exc, by) == [kind |-> "error", exc |-> exc, by |-> by]
NoResult == [kind |-> "none"]
AsSeries(r) == [index |-> r.index, values |-> r.values]

(* ---------------------------- validate_args ---------------------------- *)
NoKwargs == [k \in {} |-> NoneArg]
Kwarg(name, a) == [k \in {name} |-> a]
kwargs_get(kwargs, name, default) ==
    IF name \in DOMAIN kwargs THEN kwargs[name] ELSE default

\* whether wrapper raises ValueError for a call of func_name with kwargs
wrapper_raises(func_name, kwargs) ==
    IF func_name = "calculate_moving_average"
    THEN ~IsPositiveInt(kwargs_get(kwargs, "window_size", IntArg(WrapperDefaultWindow)))
    ELSE IF func_name = "calculate_auto_correlation"
    THEN ~IsPositiveInt(kwargs_get(kwargs, "lags", IntArg(WrapperDefaultLags)))
    ELSE FALSE

\* the decorated function: the check, then func(*args, **kwargs)
validate_args(func_name, kwargs, body) ==
    IF wrapper_raises(func_name, kwargs)
    THEN Raised("ValueError", "validate_args")
    ELSE body

\* what wrapper sees and what the function's parameter is bound to
KwargsOf(name, mode, a) == IF mode = "keyword" THEN Kwarg(name, a) ELSE NoKwargs
BoundTo(mode, a, default) == IF mode = "omitted" THEN default ELSE a

(* ----------------------- calculate_moving_average ---------------------- *)
\* len(self.data) < window_size
LenBelow(n, w) == IF w.kind = "int" THEN n < w.val ELSE n <= w.val

\* s.rolling(window=w).mean() for an integer w >= 0 on a series without NaN
rolling_mean_short(s, w) ==
    [index  |-> s.index,
     values |-> [i \in 1..Size(s) |->
                   IF i < w - 1 \/ w = 0 THEN NaN
                   ELSE Rat(SumTo([j \in 1..Size(s) |-> s.values[j].num],
                                  Max(i - w + 1, 1), i), w)]]

rolling_mean(s, w) ==
    [index  |-> s.index,
     values |-> [i \in 1..Size(s) |->
                   IF i < w \/ w = 0 THEN NaN
                   ELSE Rat(SumTo([j \in 1..Size(s) |-> s.values[j].num],
                                  i - w + 1, i), w)]]

\* the undecorated body
moving_average_body(d, window_size) ==
    IF LenBelow(Size(d), window_size) THEN Returned(EmptySeries)
    ELSE IF window_size.kind # "int" \/ window_size.val < 0
    THEN Raised("ValueError", "pandas")
    ELSE Returned(rolling_mean(d, window_size.val))

calculate_moving_average(d, mode, a) ==
    validate_args("calculate_moving_average", KwargsOf("window_size", mode, a),
                  moving_average_body(d, BoundTo(mode, a, IntArg(DefaultWindowSize))))

(* ------------------------ calculate_differential ----------------------- *)
\* s.diff() taken the wrong way round
diff_reversed(s) ==
    [index  |-> s.index,
     values |-> [i \in 1..Size(s) |->
                   IF i = 1 THEN NaN ELSE Sub(s.values[i - 1], s.values[i])]]

\* s.diff()
diff(s) ==
    [index  |-> s.index,
     values |-> [i \in 1..Size(s) |->
                   IF i = 1 THEN NaN ELSE Sub(s.values[i], s.values[i - 1])]]

calculate_differential(mad) ==
    validate_args("calculate_differential", NoKwargs, Returned(diff(mad)))

(* ---------------------- calculate_auto_correlation --------------------- *)
\* [float('nan')] * len(valid_data), index=valid_data.index
nan_series_of_valid(mad) ==
    [index  |-> dropna(mad).index,
     values |-> [i \in 1..Size(dropna(mad)) |-> NaN]]

\* pd.Series([float('nan')] * len(self.moving_avg_data), index=self.moving_avg_data.index)
nan_series(mad) ==
    [index  |-> mad.index,
     values |-> [i \in 1..Size(mad) |-> NaN]]

\* x - x.mean(), scaled by len(x) and by the entries' denominator, which the
\* entries of one rolling mean share; the scale cancels in acf's quotient
Demeaned(x) ==
    LET n == Len(x)
        p == [t \in 1..n |-> x[t].num]
    IN [t \in 1..n |-> n * p[t] - SumTo(p, 1, n)]

\* statsmodels acovf(x, adjusted=False, demean=True)[k] / acovf(...)[0]
autocorr(x, k) ==
    LET n == Len(x)
        y == Demeaned(x)
    IN Div(SumTo([t \in 1..n |-> IF t + k <= n THEN y[t] * y[t + k] ELSE 0], 1, n),
           SumTo([t \in 1..n |-> y[t] * y[t]], 1, n))

\* len(a[:stop]) for a of length n
SliceLen(n, stop) == IF stop >= 0 THEN Min(stop, n) ELSE Max(n + stop, 0)

\* statsmodels acf(x, nlags=nlags): avf[: nlags + 1] / avf[0]
acf(x, nlags) == [j \in 1..SliceLen(Len(x), nlags + 1) |-> autocorr(x, j - 1)]

\* acf_values kept whole
keep_lag0(acf_values) == acf_values

\* acf_values[1:]
drop_lag0(acf_values) ==
    [j \in 1..Max(Len(acf_values) - 1, 0) |-> acf_values[j + 1]]

\* lines 146-159, for integer lags
acf_series(mad, valid_data, lags) ==
    LET coeffs == drop_lag0(acf(valid_data.values, lags))
        k == Len(coeffs)
        n == Size(mad)
        head == [index  |-> SubSeq(mad.index, 1, n - k),
                 values |-> [i \in 1..(n - k) |-> NaN]]
        tail == [index  |-> SubSeq(valid_data.index, 1, k), values |-> coeffs]
        joined == [index  |-> head.index \o tail.index,
                   values |-> head.values \o tail.values]
    IN IF Len(joined.values) # n
       THEN Raised("ValueError", "pandas")
       ELSE Returned([index |-> mad.index, values |-> joined.values])

calculate_auto_correlation(mad, a) ==
    IF isnull_all(mad) THEN Returned(nan_series(mad))
    ELSE LET valid_data == dropna(mad)
             lags == IF a.kind = "none" THEN IntArg(Size(valid_data) - 1) ELSE a
         IN IF Size(valid_data) < 2 THEN Returned(nan_series(mad))
            ELSE IF lags.kind # "int" THEN Raised("TypeError", "statsmodels")
            ELSE acf_series(mad, valid_data, lags.val)

(* ----------------------- find_maxima, find_minima ---------------------- *)
\* a <= b on floats
Le(a, b) == ~a.nan /\ ~b.nan /\ a.num * b.den <= b.num * a.den

maxima_with_plateaus(mad) ==
    Mask(mad, {i \in 1..Size(mad) :
                 /\ Le(shift(mad, 1).values[i], mad.values[i])
                 /\ Le(shift(mad, -1).values[i], mad.values[i])})

maxima(mad) ==
    Mask(mad, {i \in 1..Size(mad) :
                 /\ Lt(shift(mad, 1).values[i], mad.values[i])
                 /\ Lt(shift(mad, -1).values[i], mad.values[i])})

minima(mad) ==
    Mask(mad, {i \in 1..Size(mad) :
                 /\ Lt(mad.values[i], shift(mad, 1).values[i])
                 /\ Lt(mad.values[i], shift(mad, -1).values[i])})

find_maxima(mad) == validate_args("find_maxima", NoKwargs, Returned(maxima(mad)))
find_minima(mad) == validate_args("find_minima", NoKwargs, Returned(minima(mad)))

(* --------------------- save_to_dataframe, get_results ------------------ *)
Labels(s) == {s.index[i] : i \in 1..Len(s.index)}

\* s.reindex(index): the entry s has at each label, NaN where it has none
Reindex(s, index) ==
    [r \in 1..Len(index) |->
       IF index[r] \in Labels(s)
       THEN s.values[CHOOSE i \in 1..Size(s) : s.index[i] = index[r]]
       ELSE NaN]

\* a frame over the labels every column has
DataFrameInner(columns) ==
    LET index == Sorted({l \in UNION {Labels(columns[c]) : c \in DOMAIN columns} :
                           \A c \in DOMAIN columns : l \in Labels(columns[c])})
    IN [kind    |-> "table",
        index   |-> index,
        columns |-> [c \in DOMAIN columns |-> Reindex(columns[c], index)]]

\* pd.DataFrame({name: series, ...}): the union of the columns' indexes
DataFrame(columns) ==
    LET index == Sorted(UNION {Labels(columns[c]) : c \in DOMAIN columns})
    IN [kind    |-> "table",
        index   |-> index,
        columns |-> [c \in DOMAIN columns |-> Reindex(columns[c], index)]]

save_to_dataframe(series, name) ==
    validate_args("save_to_dataframe", NoKwargs, DataFrame([c \in {name} |-> series]))

ColumnNames == {"Moving Average", "Differential", "Auto correlation", "Maxima", "Minima"}

\* every call get_results makes returns a series: none has an argument

get_results(d, mad) ==
    LET moving_avg == calculate_moving_average(d, "omitted", NoneArg)
        differential == calculate_differential(mad)
        auto_correlation == calculate_auto_correlation(mad, NoneArg)
        maxima_ == find_maxima(mad)
        minima_ == find_minima(mad)
    IN DataFrame([c \in ColumnNames |->
         CASE c = "Moving Average"   -> AsSeries(moving_avg)
           [] c = "Differential"     -> AsSeries(differential)
           [] c = "Auto correlation" -> AsSeries(auto_correlation)
           [] c = "Maxima"           -> AsSeries(maxima_)
           [] c = "Minima"           -> AsSeries(minima_)])

(* ------------------------------- __init__ ------------------------------ *)
\* what _load_data returns: observations without NaN, labelled 0, 1, 2, ...
RawSeries ==
    UNION {{[index  |-> [i \in 1..n |-> i - 1],
             values |-> [i \in 1..n |-> Num(v[i])]] : v \in [1..n -> RawValues]}
           : n \in 0..MaxLen}

Idle == [op |-> "__init__", mode |-> "omitted", arg |-> NoneArg,
         input |-> EmptySeries, name |-> ""]
Call(op, mode, a) == [op |-> op, mode |-> mode, arg |-> a,
                      input |-> EmptySeries, name |-> ""]

Init ==
    /\ data \in RawSeries
    /\ moving_avg_data = AsSeries(calculate_moving_average(data, "omitted", NoneArg))
    /\ call = Idle
    /\ result = NoResult

(* -------------------------------- calls -------------------------------- *)
WindowArgs == {IntArg(v) : v \in (-2)..MaxWindow} \cup {FloatArg(2)}
LagsArgs == {IntArg(v) : v \in (-2)..MaxLags} \cup {FloatArg(1)}

Ready == call.op \in {"__init__", "returned"}

\* a call that also stores what it computed
CallCalculateMovingAverageStoring ==
    /\ Ready
    /\ \E mode \in {"omitted", "positional", "keyword"} :
       \E a \in IF mode = "omitted" THEN {NoneArg} ELSE WindowArgs :
          /\ call' = Call("calculate_moving_average", mode, a)
          /\ result' = calculate_moving_average(data, mode, a)
          /\ moving_avg_data' = IF result'.kind = "series" THEN AsSeries(result')
                                ELSE moving_avg_data
    /\ UNCHANGED data

CallCalculateMovingAverage ==
    /\ Ready
    /\ \E mode \in {"omitted", "positional", "keyword"} :
       \E a \in IF mode = "omitted" THEN {NoneArg} ELSE WindowArgs :
          /\ call' = Call("calculate_moving_average", mode, a)
          /\ result' = calculate_moving_average(data, mode, a)
    /\ UNCHANGED <<data, moving_avg_data>>

CallCalculateDifferential ==
    /\ Ready
    /\ call' = Call("calculate_differential", "omitted", NoneArg)
    /\ result' = calculate_differential(moving_avg_data)
    /\ UNCHANGED <<data, moving_avg_data>>

CallCalculateAutoCorrelation ==
    /\ Ready
    /\ \E mode \in {"omitted", "keyword"} :
       \E a \in IF mode = "omitted" THEN {NoneArg} ELSE LagsArgs :
          /\ call' = Call("calculate_auto_correlation", mode, a)
          /\ result' = calculate_auto_correlation(moving_avg_data, a)
    /\ UNCHANGED <<data, moving_avg_data>>

CallFindMaxima ==
    /\ Ready
    /\ call' = Call("find_maxima", "omitted", NoneArg)
    /\ result' = find_maxima(moving_avg_data)
    /\ UNCHANGED <<data, moving_avg_data>>

CallFindMinima ==
    /\ Ready
    /\ call' = Call("find_minima", "omitted", NoneArg)
    /\ result' = find_minima(moving_avg_data)
    /\ UNCHANGED <<data, moving_avg_data>>

CallSaveToDataframe ==
    /\ Ready
    /\ \E series \in {data, moving_avg_data, maxima(moving_avg_data)} :
       \E name \in {"Test Column", "Maxima"} :
          /\ call' = [op |-> "save_to_dataframe", mode |-> "positional",
                      arg |-> NoneArg, input |-> series, name |-> name]
          /\ result' = save_to_dataframe(series, name)
    /\ UNCHANGED <<data, moving_avg_data>>

CallGetResults ==
    /\ Ready
    /\ call' = Call("get_results", "omitted", NoneArg)
    /\ result' = get_results(data, moving_avg_data)
    /\ UNCHANGED <<data, moving_avg_data>>

\* the caller takes the result; the analyzer is ready for the next call
Return ==
    /\ ~Ready
    /\ call' = Call("returned", "omitted", NoneArg)
    /\ result' = NoResult
    /\ UNCHANGED <<data, moving_avg_data>>

Next ==
    \/ CallCalculateMovingAverage
    \/ CallCalculateDifferential
    \/ CallCalculateAutoCorrelation
    \/ CallFindMaxima
    \/ CallFindMinima
    \/ CallSaveToDataframe
    \/ CallGetResults
    \/ Return

Spec == Init /\ [][Next]_vars

(* =============================== claims ================================ *)
\* the window_size the last calculate_moving_average call ran with
Window == BoundTo(call.mode, call.arg, IntArg(DefaultWindowSize))

\* the arithmetic mean of the w raw values ending at position i
TrailingMean(i, w) == Rat(SumTo([j \in 1..Size(data) |-> data.values[j].num], i - w + 1, i), w)

\* the valid entries of the stored smoothed series, in order
ValidPositions == {i \in 1..Size(moving_avg_data) : ~moving_avg_data.values[i].nan}
ValidCount == Cardinality(ValidPositions)
MissingCount == Size(moving_avg_data) - ValidCount
ValidValue(t) == moving_avg_data.values[Sorted(ValidPositions)[t]]

\* r_k = sum (x_t - mean)(x_(t-k) - mean) / sum (x_t - mean)^2 over the valid
\* entries, each x_t taken times ValidCount times the entries' denominator
Deviation(t) ==
    ValidCount * ValidValue(t).num
      - SumTo([u \in 1..ValidCount |-> ValidValue(u).num], 1, ValidCount)
LagCoefficient(k) ==
    LET cov == SumTo([t \in 1..ValidCount |->
                        IF t - k >= 1 THEN Deviation(t) * Deviation(t - k) ELSE 0],
                     1, ValidCount)
        var == SumTo([t \in 1..ValidCount |-> Deviation(t) * Deviation(t)], 1, ValidCount)
    IN IF var = 0 THEN NaN ELSE Rat(cov, var)

\* the number of leading entries of a sequence that are missing
LeadingMissing(values) ==
    Cardinality({i \in 1..Len(values) : \A j \in 1..i : values[j].nan})

\* the positions of the strict local maxima and minima of the stored series
StrictMaxima ==
    {i \in 2..(Size(moving_avg_data) - 1) :
       /\ Lt(moving_avg_data.values[i - 1], moving_avg_data.values[i])
       /\ Lt(moving_avg_data.values[i + 1], moving_avg_data.values[i])}
StrictMinima ==
    {i \in 2..(Size(moving_avg_data) - 1) :
       /\ Lt(moving_avg_data.values[i], moving_avg_data.values[i - 1])
       /\ Lt(moving_avg_data.values[i], moving_avg_data.values[i + 1])}

\* C1 (as claimed): every calculate_moving_average call whose window_size is
\* not a positive integer, however it is supplied, ends in a ValueError and
\* returns nothing.
C1_InvalidWindowAlwaysRejected ==
    (call.op = "calculate_moving_average" /\ ~IsPositiveInt(Window))
        => (result.kind = "error" /\ result.exc = "ValueError")

\* C2 (as claimed): every calculate_auto_correlation call with an explicit
\* lags that is not a positive integer ends in a ValueError and returns no
\* series.
C2_InvalidLagsAlwaysRejected ==
    (call.op = "calculate_auto_correlation" /\ call.mode # "omitted"
       /\ ~IsPositiveInt(call.arg))
        => (result.kind = "error" /\ result.exc = "ValueError")

\* C3 (as claimed): for every raw series and every valid window_size the
\* returned series is as long as the raw series, its first window_size - 1
\* entries are missing and every later entry is the trailing mean.
C3_AverageAsLongAsRawSeries ==
    (call.op = "calculate_moving_average" /\ IsPositiveInt(Window))
        => /\ result.kind = "series"
           /\ Len(result.values) = Size(data)
           /\ \A i \in 1..Size(data) :
                IF i < Window.val THEN result.values[i].nan
                ELSE SameEntry(result.values[i], TrailingMean(i, Window.val))

\* C3 (amended): for a valid window_size and a raw series of at least
\* window_size observations the returned series has the raw series' index, its
\* first window_size - 1 entries are missing and every later entry is the
\* trailing mean; for a shorter raw series it is the empty series.
C3_AverageOfLongEnoughSeries ==
    (call.op = "calculate_moving_average" /\ IsPositiveInt(Window))
        => IF Size(data) < Window.val
           THEN result = Returned(EmptySeries)
           ELSE /\ result.kind = "series"
                /\ result.index = data.index
                /\ Len(result.values) = Size(data)
                /\ \A i \in 1..Size(data) :
                     IF i < Window.val THEN result.values[i].nan
                     ELSE SameEntry(result.values[i], TrailingMean(i, Window.val))

C3_Witness ==
    /\ call.op = "calculate_moving_average"
    /\ IsPositiveInt(Window) /\ Window.val >= 2 /\ Window.val # DefaultWindowSize
    /\ Size(data) > Window.val
    /\ result.kind = "series"
    /\ \E i \in 1..Len(result.values) : ~result.values[i].nan /\ result.values[i].num > 0

\* C4: no call, failing or not, changes data or moving_avg_data, and the
\* stored smoothed series is always the window-7 moving average of data that
\* the constructor computed (the empty series when data is shorter than 7).
C4_StoredSeriesNeverChanges ==
    /\ [][data' = data /\ moving_avg_data' = moving_avg_data]_vars
    /\ [](IF Size(data) < DefaultWindowSize
          THEN moving_avg_data = EmptySeries
          ELSE /\ moving_avg_data.index = data.index
               /\ Size(moving_avg_data) = Size(data)
               /\ \A i \in 1..Size(data) :
                    IF i < DefaultWindowSize THEN moving_avg_data.values[i].nan
                    ELSE SameEntry(moving_avg_data.values[i],
                                   TrailingMean(i, DefaultWindowSize)))

C4_Witness ==
    /\ call.op = "calculate_moving_average"
    /\ result.kind = "series"
    /\ Size(data) >= DefaultWindowSize
    /\ Len(result.values) = Size(data)
    /\ AsSeries(result) # moving_avg_data

C6_ExactlyStrictExtrema ==
    /\ call.op = "find_maxima"
         => result = Returned(Take(moving_avg_data, Sorted(StrictMaxima)))
    /\ call.op = "find_minima"
         => result = Returned(Take(moving_avg_data, Sorted(StrictMinima)))
    /\ (call.op \in {"find_maxima", "find_minima"}
          /\ \A i, j \in ValidPositions :
               SameEntry(moving_avg_data.values[i], moving_avg_data.values[j]))
         => result = Returned(EmptySeries)

C6_Witness ==
    /\ call.op = "find_maxima"
    /\ ValidCount >= 3
    /\ result.kind = "series"
    /\ Len(result.values) = 1

\* C7 (as claimed): for every raw series get_results returns a table of the
\* five columns with one row for every raw index and no other row.
C7_RowsAreRawIndex ==
    call.op = "get_results"
        => /\ result.kind = "table"
           /\ DOMAIN result.columns = ColumnNames
           /\ result.index = data.index

\* C7 (amended): get_results returns a table of exactly the five columns; for
\* a raw series of at least 7 observations its rows are the raw index, one
\* each, the moving-average column is the stored series and the maxima and
\* minima columns hold the extrema at their own rows and missing elsewhere;
\* for a shorter raw series the table has no rows.
C7_RowsAreRawIndexFromSeven ==
    call.op = "get_results"
        => /\ result.kind = "table"
           /\ DOMAIN result.columns = ColumnNames
           /\ \A c \in ColumnNames : Len(result.columns[c]) = Len(result.index)
           /\ IF Size(data) < DefaultWindowSize
              THEN result.index = <<>>
              ELSE /\ result.index = data.index
                   /\ result.columns["Moving Average"] = moving_avg_data.values
                   /\ \A r \in 1..Size(data) :
                        /\ result.columns["Maxima"][r] =
                             IF r \in StrictMaxima THEN moving_avg_data.values[r] ELSE NaN
                        /\ result.columns["Minima"][r] =
                             IF r \in StrictMinima THEN moving_avg_data.values[r] ELSE NaN

C7_Witness ==
    /\ call.op = "get_results"
    /\ result.kind = "table"
    /\ Len(result.index) = MaxLen
    /\ \E r \in 1..Len(result.index) : ~result.columns["Maxima"][r].nan
    /\ \E r \in 1..Len(result.index) : ~result.columns["Auto correlation"][r].nan

C9_DifferentialOfStoredSeries ==
    call.op = "calculate_differential"
        => /\ result.kind = "series"
           /\ result.index = moving_avg_data.index
           /\ Len(result.values) = Size(moving_avg_data)
           /\ \A i \in 1..Size(moving_avg_data) :
                LET cur == moving_avg_data.values[i]
                    got == result.values[i]
                IN IF i = 1 THEN got.nan
                   ELSE LET prev == moving_avg_data.values[i - 1]
                        IN IF cur.nan \/ prev.nan THEN got.nan
                           ELSE /\ ~got.nan
                                /\ got.num * (cur.den * prev.den)
                                     = (cur.num * prev.den - prev.num * cur.den) * got.den

C9_Witness ==
    /\ call.op = "calculate_differential"
    /\ result.kind = "series"
    /\ \E i \in 1..Len(result.values) : ~result.values[i].nan /\ result.values[i].num > 0
    /\ \E i \in 1..Len(result.values) : ~result.values[i].nan /\ result.values[i].num < 0

\* C10 (as claimed): with lags omitted and at least 2 valid smoothed entries,
\* the k-th entry of the result, counted from its first position, is the
\* lag-k coefficient of the valid smoothed values, for k = 1..valid - 1.
C10_CoefficientsFromFirstPosition ==
    (call.op = "calculate_auto_correlation" /\ call.mode = "omitted" /\ ValidCount >= 2)
        => /\ result.kind = "series"
           /\ \A k \in 1..(ValidCount - 1) :
                SameEntry(result.values[k], LagCoefficient(k))

====
